---- MODULE Spec2Model ----
(***************************************************************************)
(* The catalog build of bonjourarcade/roms: the parallel-batched gamelist  *)
(* driver (src/unnamed/part_001) and the sequential driver                 *)
(* (src/scripts/generate_gamelist_sequential.sh), run one after the other  *)
(* on the same manifest, games directory, prediction data and clock.       *)
(*                                                                         *)
(* Text is modelled structurally, because strings are atomic here:         *)
(*   - a manifest line "NES/Mario.nes" is [dirs |-> <<"NES">>,             *)
(*     base |-> "Mario", ext |-> "nes"]: its directory segments, and the   *)
(*     file name split at its last dot (ext = "" when it has no dot);      *)
(*   - a path or URL built by concatenation is the sequence of its pieces, *)
(*     the empty string being <<>>;                                        *)
(*   - processed_games.json is the sequence of its JSON tokens.            *)
(* Of the metadata fields that are copied unchanged with default ""        *)
(* (developer, year, genre, recommended, to_start, problem, controls) only *)
(* developer is carried: the others go through the very same lines.        *)
(***************************************************************************)
EXTENDS Integers, Sequences, FiniteSets, TLC

\* ------------------------------------------------------------------ bounds
\* Lines of the manifest (files of the roms tree).
MaxManifest == 2
\* Batch workers (BATCH_WORKERS: 3 in CI, 75% of the cores otherwise, >= 2).
NumWorkers == 2
\* external-* directories under public/games.
MaxExternal == 1

\* ------------------------------------------------------- program constants
\* Seconds per day, the divisor of diff_days.
SecondsPerDay == 86400
\* DAYS_NEW: an entry younger than this many days is new.
DAYS_NEW == 7

DEFAULT_COVER == <<"/", "assets/images/placeholder_thumb.png">>
LAUNCHER_PAGE == "/play"
DATE_PLACEHOLDER == "DATE_PLACEHOLDER"
GCS_ROMS == "https://storage.googleapis.com/bonjourarcade/roms"

\* A field the metadata document does not have (jq's null).
Unset == "<unset>"

\* ------------------------------------------------------------- the inputs
Line(dirs, base, ext) == [dirs |-> dirs, base |-> base, ext |-> ext]

\* The manifest lines the model draws from, in the order `sort` gives them
\* (byte order): NES/Mario.nes, NES/My Game.nes, NES/README.md, NES/bios,
\* NES/bios/sys.bin, NES/notes.txt, SNES/Mario.sfc, XYZ/Zelda.bin,
\* bios/sys.bin.
SortedLines ==
    << Line(<<"NES">>, "Mario", "nes"),
       Line(<<"NES">>, "My Game", "nes"),
       Line(<<"NES">>, "README", "md"),
       Line(<<"NES">>, "bios", ""),
       Line(<<"NES", "bios">>, "sys", "bin"),
       Line(<<"NES">>, "notes", "txt"),
       Line(<<"SNES">>, "Mario", "sfc"),
       Line(<<"XYZ">>, "Zelda", "bin"),
       Line(<<"bios">>, "sys", "bin") >>

AllLines == { SortedLines[i] : i \in 1..Len(SortedLines) }

\* Game ids in the order `find ... -name "game_*.json" | sort` lists their
\* files.
SortedIds == << "Mario", "My Game", "README", "Zelda", "bios", "notes", "sys" >>

RomIds == { SortedIds[i] : i \in 1..Len(SortedIds) }

\* The external-* directories, in glob order.
SortedExternalIds == << "external-arcade1up", "external-demo" >>

ExternalIds == { SortedExternalIds[i] : i \in 1..Len(SortedExternalIds) }

GameDirs == RomIds \cup ExternalIds

\* Ids holding a blank: the shell splits an unquoted expansion there.
HasWhitespace(id) == id \in {"My Game"}

\* Calendar dates and their epoch seconds at midnight (what `date -d` prints).
Dates == {"2025-01-26", "2025-01-27", "2025-01-28", "2025-01-31", "2025-02-05"}

EpochOf(d) ==
    CASE d = "2025-01-26" -> 1737849600
      [] d = "2025-01-27" -> 1737936000
      [] d = "2025-01-28" -> 1738022400
      [] d = "2025-01-31" -> 1738281600
      [] d = "2025-02-05" -> 1738713600

\* 2025-02-03 00:00:00 and 2025-02-03 18:00:00.
Nows == {1738540800, 1738605600}

\* grep -i folds case before matching.
Lower(s) ==
    CASE s = "README" -> "readme"
      [] s = "Upload-Files" -> "upload-files"
      [] s = "TXT" -> "txt"
      [] s = "MD" -> "md"
      [] OTHER -> s

\* File-name stems that end in a backslash (none is drawn by default).
EndsWithBackslash(base) == base \in {"notes\\"}

\* --------------------------------------------------------- manifest source
\* grep "/bios/": the line holds the text "/bios/" when a directory segment
\* that has a slash on both sides is bios. A manifest line starts with its
\* first segment; a line printed by find starts with "roms/" (prefixed).
ContainsSlashBiosSlash(l, prefixed) ==
    \E i \in (IF prefixed THEN 1 ELSE 2)..Len(l.dirs) : l.dirs[i] = "bios"

\* grep -iE '(^|/)(README|upload-files)(\.|$)': a segment that is README or
\* upload-files followed by a dot or by the end of the line, which only the
\* file name can be.
ReservedBasenameRegex(l) == Lower(l.base) \in {"readme", "upload-files"}

DeniedExtensions == {"md", "markdown", "txt", "sh", "bash", "zsh", "ps1", "bat"}

\* grep -iE '\\.(md|markdown|txt|sh|bash|zsh|ps1|bat)$': inside single quotes
\* the pattern keeps both backslashes, so it asks for a backslash, then any
\* one character, then the extension at the end of the line.
DenylistRegex(l) ==
    /\ EndsWithBackslash(l.base)
    /\ Lower(l.ext) \in DeniedExtensions

\* find -L roms -maxdepth 2 -type f: files directly under roms/ or one
\* directory below it.
FindFiles(tree) == { l \in tree : Len(l.dirs) <= 1 }

\* sort
Sort(S) == SelectSeq(SortedLines, LAMBDA l : l \in S)

\* ROM_FILES of the parallel driver.
CollectParallel(source, lines) ==
    CASE source = "url" ->
           Sort({ l \in lines : ~ContainsSlashBiosSlash(l, FALSE) })
      [] source = "path" ->
           Sort({ l \in lines : /\ ~ContainsSlashBiosSlash(l, FALSE)
                                /\ ~ReservedBasenameRegex(l)
                                /\ ~DenylistRegex(l) })
      [] OTHER ->
           Sort({ l \in FindFiles(lines) : /\ ~ContainsSlashBiosSlash(l, TRUE)
                                           /\ ~ReservedBasenameRegex(l)
                                           /\ ~DenylistRegex(l) })

\* ROM_FILES of the sequential driver.
CollectSequential(source, lines) ==
    CASE source = "url" ->
           Sort({ l \in lines : ~ContainsSlashBiosSlash(l, FALSE) })
      [] source = "path" ->
           Sort({ l \in lines : ~ContainsSlashBiosSlash(l, FALSE) })
      [] OTHER ->
           Sort({ l \in FindFiles(lines) : ~ContainsSlashBiosSlash(l, TRUE) })

\* awk round robin: line k goes to batch ((k - 1) % num_workers) + 1.
BatchFile(files, w) ==
    LET ks == { k \in 1..Len(files) : ((k - 1) % NumWorkers) + 1 = w }
    IN  [ j \in 1..Cardinality(ks) |-> files[(j - 1) * NumWorkers + w] ]

\* ------------------------------------------------------------ entry fields
\* rom_subdir: cut -d'/' -f1 of a line with a slash, else
\* basename "$(dirname "$rom_entry")", which is "." for a bare file name.
RomSubdir(l) == IF Len(l.dirs) > 0 THEN l.dirs[1] ELSE "."

\* rom_filename: the last segment.
RomFilename(l) == [base |-> l.base, ext |-> l.ext]

\* game_id: sed 's/\.[^.]*$//' drops the last dot and what follows it.
GameId(l) == RomFilename(l).base

\* The per-entry helper-file skip of the parallel driver:
\* '^(README|upload-files)(\.|$)' and the extension pattern, on the file name.
SkipHelperFile(l) ==
    \/ Lower(RomFilename(l).base) \in {"readme", "upload-files"}
    \/ DenylistRegex(l)

\* The bios skip comparing with another spelling of the directory name.
SkipBios_OtherSpelling(l) == RomSubdir(l) = "BIOS"

\* [ "$rom_subdir" = "bios" ]
SkipBios(l) == RomSubdir(l) = "bios"

get_core_from_dir(dir) ==
    CASE dir \in {"arcade", "fbneo"} -> "arcade"
      [] dir \in {"mame", "mame2003"} -> "mame2003_plus"
      [] dir = "ATARI2600" -> "atari2600"
      [] dir = "GAMEBOY" -> "gb"
      [] dir = "GBA" -> "gba"
      [] dir \in {"GENESIS", "MEGADRIVE"} -> "segaMD"
      [] dir = "GG" -> "segaGG"
      [] dir = "JAGUAR" -> "jaguar"
      [] dir = "N64" -> "n64"
      [] dir = "NES" -> "nes"
      [] dir = "PCENGINE" -> "pce"
      [] dir = "PSX" -> "psx"
      [] dir = "S32X" -> "sega32x"
      [] dir = "SMS" -> "segaMS"
      [] dir = "SNES" -> "snes"
      [] dir = "VB" -> "vb"
      [] dir = "WS" -> "ws"
      [] OTHER -> ""

\* rom_path
RomPath(local, l) ==
    << IF local THEN "/roms" ELSE GCS_ROMS, RomSubdir(l),
       RomFilename(l).base, RomFilename(l).ext >>

\* page_url="${launcher_page}?game=${game_id}"
PageUrl(id) == << LAUNCHER_PAGE, "?game=", id >>

\* jq's alternative operator `.field // default`: the default stands in for
\* null and for false.
JqAlt(v, default) == IF v = Unset \/ v = "false" THEN default ELSE v

\* ${var:-word}
OrDefault(v, word) == IF v = "" THEN word ELSE v

\* (a - b) / c of shell arithmetic: the quotient is truncated towards zero.
ShellDiv(a, c) == IF a >= 0 THEN a \div c ELSE -((-a) \div c)

\* `date -d "$added" +%s` (after `date -j -f`, which GNU date rejects) prints
\* the epoch of a calendar date and fails on anything else.
DateParses(added) == added \in Dates

\* The date test runs only for a non-empty added that is not the placeholder.
DateTested(added) == added # "" /\ added # DATE_PLACEHOLDER

\* added_epoch=$(date ... || date ...) is a plain assignment: when both date
\* calls fail its status is non-zero, and under `set -e` the shell exits
\* unless errexit is being ignored (inside `if ! ( ... )`).
DateAborts(added, errexit) ==
    errexit /\ DateTested(added) /\ ~DateParses(added)

\* is_new_by_date
IsNewByDate(added, now) ==
    IF DateTested(added) /\ DateParses(added)
    THEN IF ShellDiv(now - EpochOf(added), SecondsPerDay) < DAYS_NEW
         THEN "true" ELSE ""
    ELSE ""

\* Determine final new_flag
FinalNewFlag(new_flag, is_new_by_date) ==
    IF new_flag = "true" \/ is_new_by_date = "true" THEN "true" ELSE ""

\* The cover path without the test for the game's own cover.png.
CoverArt_AlwaysOwnCover(id, dir) == << "/games/", id, "/cover.png" >>

\* cover_art_abs
CoverArt(id, dir) ==
    IF dir.exists /\ dir.cover THEN << "/games/", id, "/cover.png" >>
    ELSE DEFAULT_COVER

\* save_state
SaveState(id, dir) ==
    IF dir.exists /\ dir.save THEN << "/games/", id, "/save.state" >>
    ELSE << >>

\* ------------------------------------------------------ the games directory
\* A metadata.yaml: absent, unparsable (yq fails or prints no JSON value), or
\* parsed to an object whose fields are strings, booleans or Unset.
Doc(state, title, hide, added, new, enable_score, announcement_message) ==
    [ state |-> state, title |-> title, hide |-> hide, added |-> added,
      new |-> new, enable_score |-> enable_score,
      announcement_message |-> announcement_message, developer |-> Unset,
      game_type |-> Unset, external_url |-> Unset,
      launch_button_text |-> Unset, launch_button_url |-> Unset ]

AbsentDoc == Doc("absent", Unset, Unset, Unset, Unset, Unset, Unset)

InvalidDoc == Doc("invalid", Unset, Unset, Unset, Unset, Unset, Unset)

\* The metadata.yaml of an external game.
ExternalDoc(game_type, title, hide, external_url, launch_button_url, added, new) ==
    [ Doc("parsed", title, hide, added, new, Unset, Unset)
        EXCEPT !.game_type = game_type, !.external_url = external_url,
               !.launch_button_url = launch_button_url ]

\* public/games/<id>/: its metadata.yaml, cover.png and save.state.
GameDir(meta, cover, save) ==
    [ exists |-> TRUE, meta |-> meta, cover |-> cover, save |-> save ]

NoDir == [ exists |-> FALSE, meta |-> AbsentDoc, cover |-> FALSE, save |-> FALSE ]

\* [ -f "$metadata_file" ]
MetadataFileExists(dir) == dir.exists /\ dir.meta.state # "absent"

\* The parse test accepting whatever the metadata file holds.
MetadataParses_AnyFile(dir) == dir.exists /\ dir.meta.state # "absent"

\* yq printed a JSON value that jq -e accepts.
MetadataParses(dir) == dir.exists /\ dir.meta.state = "parsed"

\* ------------------------------------------------------ prediction overlay
\* What scripts/check_predictions_status.py prints for a key: its exit
\* status, NOT_IN_PREDICTIONS or SHOW_GAME, and the date after "|" ("" when
\* the output has no "|").
Prediction(exit, out, date) == [ exit |-> exit, out |-> out, date |-> date ]

NotInPredictions == Prediction(0, "NOT_IN_PREDICTIONS", "")

\* The keys the helper is asked about: game ids and metadata titles.
PredictionKeys == RomIds \cup {"Super Mario"}

\* ------------------------------------------------------------------- state
VARIABLES
    LOCAL_TESTING,          \* the environment: local path mode
    manifest_source,        \* "url", "path" or "scan"
    manifest,               \* the manifest's lines, or the files of roms/
    games_dir,              \* public/games: id -> directory
    predictions,            \* key -> what the prediction helper prints
    now_epoch,              \* date +%s
    driver,                 \* the driver that is running
    pc,                     \* where its main shell is
    ROM_FILES,              \* the collected, sorted entries
    batch_pos,              \* worker -> lines of its batch file already read
    seq_count,              \* lines the sequential loop has read
    game_files,             \* $TEMP_DIR/game_<id>.json: id -> <<>> or <<entry>>
    processed_games,        \* $TEMP_DIR/processed_games.json, as tokens
    first_game,             \* the comma flag
    announcement_message,   \* the main shell's variable of that name
    ext_todo,               \* external-* directories still to scan
    OUTPUT_FILE,            \* public/gamelist.json
    current_game,           \* public/api/current-game
    exit_code,              \* exit status of the driver, -1 while it runs
    parallel_run,           \* what the parallel run left behind
    \* the progress tracker (scripts/progress_tracker.sh) and what it watches
    caller_ROMS_DIR,        \* ROMS_DIR in the caller's environment, "" if unset
    rom_dirs,               \* directory -> ROM files find counts in it, -1 absent
    to_log,                 \* entries each watched process logs in all
    GAMELIST_LOG,           \* lines of /tmp/gamelist_progress.log
    THUMBNAILS_LOG,         \* lines of /tmp/thumbnails_progress.log
    LOCK_FILE,              \* /tmp/progress_tracker.lock: 0 absent, else a pid
    tracker_pc,             \* tracker -> where it is
    TOTAL_ROMS,             \* tracker -> its total, -1 before it is counted
    \* keyboard navigation of the game grid (main.js)
    currentIndex,           \* 0 = featured, 1...N = games in grid
    gameItems,              \* length of the cached .game-item list
    allGamesData,           \* length of window.allGamesData, -1 before the load
    searchFocused,          \* document.activeElement === searchInput
    \* the typing test (wpm/script.js)
    typingTest,             \* the WPMTypingTest object, its input and timers
    clock                   \* Date.now(), in seconds

env == << LOCAL_TESTING, manifest_source, manifest, games_dir, predictions,
          now_epoch >>

run == << driver, pc, ROM_FILES, batch_pos, seq_count, game_files,
          processed_games, first_game, announcement_message, ext_todo,
          OUTPUT_FILE, current_game, exit_code, parallel_run >>

tracking == << caller_ROMS_DIR, rom_dirs, to_log, GAMELIST_LOG, THUMBNAILS_LOG,
               LOCK_FILE, tracker_pc, TOTAL_ROMS >>

navigation == << currentIndex, gameItems, allGamesData, searchFocused >>

typing == << typingTest, clock >>

others == << tracking, navigation, typing >>

vars == << env, run, others >>

Workers == 1..NumWorkers

\* ------------------------------------------------------ progress tracker
\* Most ROM files a ROM root holds, and the tracker processes started.
MaxRoms == 2
NumTrackers == 2

Trackers == 1..NumTrackers

\* The ROM roots: the script's own, and the one the test hands over.
TEST_ROMS_DIR == "/tmp/test_roms"
RomRoots == { "./roms", TEST_ROMS_DIR }

\* ROMS_DIR inside the tracker once its configuration block has run: a plain
\* assignment, whatever the environment held.
ROMS_DIR(inherited) == "./roms"

\* wc -l of a log, 0 when the file does not exist.
count_processed_files(log_file) == log_file

\* count_total_roms: the files find counts under ${ROMS_DIR:-roms}, or, if
\* that is no directory, the larger of the two log counts.
count_total_roms(roms_dir_var, dirs, gamelist_log, thumbnails_log) ==
    LET roms_dir == IF roms_dir_var \in { "", "roms" } THEN "./roms"
                    ELSE roms_dir_var
        gamelist_count == count_processed_files(gamelist_log)
        thumbnails_count == count_processed_files(thumbnails_log)
    IN  IF dirs[roms_dir] >= 0 THEN dirs[roms_dir]
        ELSE IF gamelist_count > thumbnails_count THEN gamelist_count
        ELSE thumbnails_count

\* No tracker has been started, nothing is logged.
TrackingIdle ==
    /\ caller_ROMS_DIR = ""
    /\ rom_dirs = [ d \in RomRoots |-> -1 ]
    /\ to_log = 0
    /\ GAMELIST_LOG = 0
    /\ THUMBNAILS_LOG = 0
    /\ LOCK_FILE = 0
    /\ tracker_pc = [ i \in Trackers |-> "start" ]
    /\ TOTAL_ROMS = [ i \in Trackers |-> -1 ]

\* The trackers are started together, with or without ROMS_DIR in their
\* environment; the two watched processes log one line for each ROM file of
\* the ROM root the caller designates.
InitTracking ==
    /\ caller_ROMS_DIR \in { "", TEST_ROMS_DIR }
    /\ rom_dirs \in [ RomRoots -> -1..MaxRoms ]
    /\ (rom_dirs[TEST_ROMS_DIR] >= 0) = (caller_ROMS_DIR = TEST_ROMS_DIR)
    /\ LET root == IF caller_ROMS_DIR = "" THEN "./roms" ELSE caller_ROMS_DIR
       IN  IF rom_dirs[root] >= 0 THEN to_log = rom_dirs[root]
           ELSE to_log \in 0..MaxRoms
    /\ GAMELIST_LOG = 0
    /\ THUMBNAILS_LOG = 0
    /\ LOCK_FILE = 0
    /\ tracker_pc = [ i \in Trackers |-> "start" ]
    /\ TOTAL_ROMS = [ i \in Trackers |-> -1 ]

\* if [ -f "$LOCK_FILE" ]; then exit 1; fi
LockCheck(i) ==
    /\ tracker_pc[i] = "start"
    /\ tracker_pc' = [ tracker_pc EXCEPT ![i] = IF LOCK_FILE # 0 THEN "refused"
                                                 ELSE "create" ]
    /\ UNCHANGED << env, run, navigation, typing, caller_ROMS_DIR, rom_dirs,
                    to_log, GAMELIST_LOG, THUMBNAILS_LOG, LOCK_FILE,
                    TOTAL_ROMS >>

\* echo $$ > "$LOCK_FILE"; trap cleanup SIGINT SIGTERM EXIT
LockCreate(i) ==
    /\ tracker_pc[i] = "create"
    /\ LOCK_FILE' = i
    /\ tracker_pc' = [ tracker_pc EXCEPT ![i] = "main" ]
    /\ UNCHANGED << env, run, navigation, typing, caller_ROMS_DIR, rom_dirs,
                    to_log, GAMELIST_LOG, THUMBNAILS_LOG, TOTAL_ROMS >>

\* main: TOTAL_ROMS=$(count_total_roms); touch the two logs
CountTotal(i) ==
    /\ tracker_pc[i] = "main"
    /\ TOTAL_ROMS' = [ TOTAL_ROMS EXCEPT ![i] =
                         count_total_roms(ROMS_DIR(caller_ROMS_DIR), rom_dirs,
                                          GAMELIST_LOG, THUMBNAILS_LOG) ]
    /\ tracker_pc' = [ tracker_pc EXCEPT ![i] = "loop" ]
    /\ UNCHANGED << env, run, navigation, typing, caller_ROMS_DIR, rom_dirs,
                    to_log, GAMELIST_LOG, THUMBNAILS_LOG, LOCK_FILE >>

\* cleanup: rm -f "$LOCK_FILE"
cleanup(lock) == 0

\* One pass of the monitor loop: read the two counts; when both have reached
\* the total, report "Both processes completed", leave the loop and end (the
\* EXIT trap runs cleanup); else sleep.
Poll(i) ==
    /\ tracker_pc[i] = "loop"
    /\ LET GAMELIST_PROCESSED == count_processed_files(GAMELIST_LOG)
           THUMBNAILS_PROCESSED == count_processed_files(THUMBNAILS_LOG)
       IN  IF /\ GAMELIST_PROCESSED >= TOTAL_ROMS[i]
              /\ THUMBNAILS_PROCESSED >= TOTAL_ROMS[i]
           THEN /\ tracker_pc' = [ tracker_pc EXCEPT ![i] = "done" ]
                /\ LOCK_FILE' = cleanup(LOCK_FILE)
           ELSE UNCHANGED << tracker_pc, LOCK_FILE >>
    /\ UNCHANGED << env, run, navigation, typing, caller_ROMS_DIR, rom_dirs,
                    to_log, GAMELIST_LOG, THUMBNAILS_LOG, TOTAL_ROMS >>

\* SIGINT or SIGTERM once the trap is set: cleanup, exit 0.
Kill(i) ==
    /\ tracker_pc[i] \in { "main", "loop" }
    /\ LOCK_FILE' = cleanup(LOCK_FILE)
    /\ tracker_pc' = [ tracker_pc EXCEPT ![i] = "stopped" ]
    /\ UNCHANGED << env, run, navigation, typing, caller_ROMS_DIR, rom_dirs,
                    to_log, GAMELIST_LOG, THUMBNAILS_LOG, TOTAL_ROMS >>

\* The gamelist process logs its next entry.
LogGamelist ==
    /\ GAMELIST_LOG < to_log
    /\ GAMELIST_LOG' = GAMELIST_LOG + 1
    /\ UNCHANGED << env, run, navigation, typing, caller_ROMS_DIR, rom_dirs,
                    to_log, THUMBNAILS_LOG, LOCK_FILE, tracker_pc,
                    TOTAL_ROMS >>

\* The thumbnail process logs its next entry.
LogThumbnail ==
    /\ THUMBNAILS_LOG < to_log
    /\ THUMBNAILS_LOG' = THUMBNAILS_LOG + 1
    /\ UNCHANGED << env, run, navigation, typing, caller_ROMS_DIR, rom_dirs,
                    to_log, GAMELIST_LOG, LOCK_FILE, tracker_pc, TOTAL_ROMS >>

NextTracker ==
    \/ \E i \in Trackers : LockCheck(i)
    \/ \E i \in Trackers : LockCreate(i)
    \/ \E i \in Trackers : CountTotal(i)
    \/ \E i \in Trackers : Poll(i)
    \/ \E i \in Trackers : Kill(i)
    \/ LogGamelist
    \/ LogThumbnail

\* --------------------------------------------------- keyboard navigation
\* Most games of the catalog the page loads, and most columns of the grid.
MaxGames == 6
MaxCols == 3

Keys == { "ArrowDown", "ArrowUp", "ArrowLeft", "ArrowRight", "Tab", "Escape",
          "/" }

Min(a, b) == IF a < b THEN a ELSE b
Max(a, b) == IF a > b THEN a ELSE b

\* The page before its catalog is loaded: no grid item, nothing focused.
InitNavigation ==
    /\ currentIndex = 0
    /\ gameItems = 0
    /\ allGamesData = -1
    /\ searchFocused = FALSE

\* populatePreviousGames(games), then the MutationObserver's
\* updateGameItems: the grid is rebuilt unless there is no game to show.
populatePreviousGames(items, games) == IF games <= 0 THEN items ELSE games

\* The index a navigation key leaves, from the index, the length of
\* gameItems and the number of grid columns.
Navigate(key, shiftKey, index, length, gridCols) ==
    CASE key = "ArrowDown" ->
            IF index = 0 THEN 1 ELSE Min(length, index + gridCols)
      [] key = "ArrowUp" ->
            IF index <= gridCols THEN 0 ELSE Max(1, index - gridCols)
      [] key = "ArrowLeft" ->
            IF index > 0 THEN Max(0, index - 1) ELSE index
      [] key = "ArrowRight" ->
            IF index < length THEN Min(length, index + 1) ELSE index
      [] key = "Tab" ->
            IF shiftKey THEN (index - 1 + length + 1) % (length + 1)
            ELSE (index + 1) % (length + 1)
      [] OTHER -> index

\* The catalog arrives: window.allGamesData is set and the grid populated.
GamesLoaded(n) ==
    /\ allGamesData = -1
    /\ allGamesData' = n
    /\ gameItems' = populatePreviousGames(gameItems, n)
    /\ UNCHANGED << env, run, tracking, typing, currentIndex, searchFocused >>

\* The keydown listener of the document.
KeyDown(key, shiftKey, gridCols) ==
    /\ IF searchFocused
       THEN IF key = "Escape"
            THEN /\ searchFocused' = FALSE
                 /\ gameItems' = populatePreviousGames(gameItems, allGamesData)
                 /\ currentIndex' = 0
            ELSE UNCHANGED << searchFocused, gameItems, currentIndex >>
       ELSE IF key = "/"
            THEN /\ searchFocused' = TRUE
                 /\ UNCHANGED << gameItems, currentIndex >>
            ELSE /\ currentIndex' = Navigate(key, shiftKey, currentIndex,
                                             gameItems, gridCols)
                 /\ UNCHANGED << searchFocused, gameItems >>
    /\ UNCHANGED << env, run, tracking, typing, allGamesData >>

\* The input listener of the search field: the grid is rebuilt with the n
\* games that match (all of them for an empty term, none left in the grid
\* when nothing matches), and the observer refreshes gameItems.
SearchInput(n) ==
    /\ searchFocused
    /\ allGamesData >= 0
    /\ n <= allGamesData
    /\ gameItems' = n
    /\ UNCHANGED << env, run, tracking, typing, currentIndex, allGamesData,
                    searchFocused >>

\* A click into the search field, or anywhere else.
Click(onSearch) ==
    /\ searchFocused' = onSearch
    /\ searchFocused' # searchFocused
    /\ UNCHANGED << env, run, tracking, typing, currentIndex, gameItems,
                    allGamesData >>

NextNavigation ==
    \/ \E n \in 0..MaxGames : GamesLoaded(n)
    \/ \E key \in Keys, shiftKey \in BOOLEAN, gridCols \in 1..MaxCols :
          KeyDown(key, shiftKey, gridCols)
    \/ \E n \in 0..MaxGames : SearchInput(n)
    \/ \E onSearch \in BOOLEAN : Click(onSearch)

\* ------------------------------------------------------------ typing test
\* The seconds the clock advances in one step, the last second looked at,
\* the setInterval calls followed, and the longest text typed or pasted.
TickSeconds == 15
MaxClock == 91
MaxTimers == 3
MaxInput == 23

testDuration == 60

\* Lengths of the quotes kept by parseQuotes (quote.length > 20).
QuoteLengths == { 21, 22 }

\* The object after its constructor: no quote yet, no timer. 0 stands for
\* null in startTime and timerInterval; value and currentQuote are lengths.
NewTypingTest ==
    [ quotes |-> FALSE, currentQuote |-> 0, startTime |-> 0,
      isTestActive |-> FALSE, isTestComplete |-> FALSE, timerInterval |-> 0,
      timeRemaining |-> 60, value |-> 0, disabled |-> FALSE,
      intervals |-> { }, timers |-> 0 ]

InitTyping ==
    /\ typingTest = NewTypingTest
    /\ clock = 1

clearInterval(intervals, id) == intervals \ { id }

displayRandomQuote(t, q) ==
    IF ~t.quotes THEN t ELSE [ t EXCEPT !.currentQuote = q ]

startTest(t) ==
    IF t.isTestActive THEN t
    ELSE [ t EXCEPT !.isTestActive = TRUE,
                    !.startTime = clock,
                    !.timeRemaining = testDuration,
                    !.disabled = FALSE,
                    !.timerInterval = t.timers + 1,
                    !.intervals = @ \cup { t.timers + 1 },
                    !.timers = @ + 1 ]

\* completeTest that leaves its timer running.
completeTest_KeepsTimer(t) ==
    [ t EXCEPT !.isTestComplete = TRUE,
               !.disabled = TRUE,
               !.isTestActive = FALSE ]

completeTest(t) ==
    [ t EXCEPT !.isTestComplete = TRUE,
               !.intervals = IF t.timerInterval # 0
                             THEN clearInterval(@, t.timerInterval) ELSE @,
               !.disabled = TRUE,
               !.isTestActive = FALSE ]

restartTest(t) ==
    [ t EXCEPT !.isTestActive = FALSE,
               !.isTestComplete = FALSE,
               !.startTime = 0,
               !.timeRemaining = testDuration,
               !.intervals = IF t.timerInterval # 0
                             THEN clearInterval(@, t.timerInterval) ELSE @,
               !.value = 0,
               !.disabled = FALSE ]

newQuote(t, q) == displayRandomQuote(restartTest(t), q)

handleInput(t, inputValue) ==
    LET started == IF ~t.isTestActive /\ inputValue > 0 THEN startTest(t)
                   ELSE t
    IN  IF ~started.isTestActive THEN started
        ELSE IF inputValue = started.currentQuote THEN completeTest(started)
        ELSE started

updateTimer(t) ==
    IF t.startTime = 0 THEN t
    ELSE LET remaining == Max(0, testDuration - (clock - t.startTime))
             u == [ t EXCEPT !.timeRemaining = remaining ]
         IN  IF remaining <= 0 THEN completeTest(u) ELSE u

\* loadQuotes succeeds: a quote is shown and the text box cleared.
QuotesLoaded(q) ==
    /\ ~typingTest.quotes
    /\ typingTest' = [ displayRandomQuote([ typingTest EXCEPT !.quotes = TRUE ],
                                          q) EXCEPT !.value = 0 ]
    /\ UNCHANGED << env, run, tracking, navigation, clock >>

\* The input event of the text box: it now holds inputValue characters.
Input(inputValue) ==
    /\ ~typingTest.disabled
    /\ typingTest.isTestActive \/ typingTest.timers < MaxTimers
    /\ typingTest' = handleInput([ typingTest EXCEPT !.value = inputValue ],
                                 inputValue)
    /\ UNCHANGED << env, run, tracking, navigation, clock >>

\* A live interval fires its callback.
TimerFires ==
    /\ typingTest.intervals # { }
    /\ typingTest' = updateTimer(typingTest)
    /\ UNCHANGED << env, run, tracking, navigation, clock >>

\* The restart button.
ClickRestart ==
    /\ typingTest' = restartTest(typingTest)
    /\ UNCHANGED << env, run, tracking, navigation, clock >>

\* The Escape key, anywhere in the document.
KeyEscape ==
    /\ typingTest' = restartTest(typingTest)
    /\ UNCHANGED << env, run, tracking, navigation, clock >>

\* The new-quote button.
ClickNewQuote(q) ==
    /\ typingTest' = newQuote(typingTest, q)
    /\ UNCHANGED << env, run, tracking, navigation, clock >>

\* Time passes.
Elapse ==
    /\ clock + TickSeconds <= MaxClock
    /\ clock' = clock + TickSeconds
    /\ UNCHANGED << env, run, tracking, navigation, typingTest >>

NextTyping ==
    \/ \E q \in QuoteLengths : QuotesLoaded(q)
    \/ \E inputValue \in 0..MaxInput : Input(inputValue)
    \/ TimerFires
    \/ ClickRestart
    \/ KeyEscape
    \/ \E q \in QuoteLengths : ClickNewQuote(q)
    \/ Elapse

\* The tracker, the page and the typing test at rest.
OthersIdle == TrackingIdle /\ InitNavigation /\ InitTyping

\* The lookup taking a failed helper call for a predicted-show answer.
PredictionResult_FailureShows(key) ==
    IF key \in DOMAIN predictions /\ predictions[key].exit = 0
    THEN predictions[key]
    ELSE Prediction(0, "SHOW_GAME", "")

\* $(python3 scripts/check_predictions_status.py "$key" 2>/dev/null
\*   || echo "NOT_IN_PREDICTIONS")
PredictionResult(key) ==
    IF key \in DOMAIN predictions /\ predictions[key].exit = 0
    THEN predictions[key]
    ELSE NotInPredictions

\* The body of `if [[ "$prediction_result" == SHOW_GAME* ]]`.
ApplyPrediction(v, key) ==
    LET r == PredictionResult(key)
    IN  IF r.out = "SHOW_GAME"
        THEN [ v EXCEPT !.hide = "no",
                        !.added = IF r.date # "" THEN r.date ELSE @ ]
        ELSE v

\* The identifier the driver hands to the prediction helper: the parallel
\* driver the game id, the sequential driver the title.
PredictionKey(drv, game_id, title) ==
    IF drv = "parallel" THEN game_id ELSE title

\* The metadata branch with the hide of a parsed document falling back to
\* "yes" instead of "".
RomMetadata_HideFallsBackToYes(game_id, dir, inherited_announcement) ==
    IF MetadataParses(dir)
    THEN [ title |-> JqAlt(dir.meta.title, ""),
           developer |-> JqAlt(dir.meta.developer, ""),
           added |-> JqAlt(dir.meta.added, ""),
           hide |-> JqAlt(dir.meta.hide, "yes"),
           enable_score |-> JqAlt(dir.meta.enable_score, "true"),
           new_flag |-> JqAlt(dir.meta.new, ""),
           announcement_message |-> JqAlt(dir.meta.announcement_message, "") ]
    ELSE [ title |-> game_id, developer |-> "", added |-> "", hide |-> "yes",
           enable_score |-> "true", new_flag |-> "",
           announcement_message |-> inherited_announcement ]

\* The shell variables after the metadata branch. A variable the branch does
\* not assign keeps the value it had: announcement_message is assigned only
\* from a parsed document.
RomMetadata(game_id, dir, inherited_announcement) ==
    IF MetadataParses(dir)
    THEN [ title |-> JqAlt(dir.meta.title, ""),
           developer |-> JqAlt(dir.meta.developer, ""),
           added |-> JqAlt(dir.meta.added, ""),
           hide |-> JqAlt(dir.meta.hide, ""),
           enable_score |-> JqAlt(dir.meta.enable_score, "true"),
           new_flag |-> JqAlt(dir.meta.new, ""),
           announcement_message |-> JqAlt(dir.meta.announcement_message, "") ]
    ELSE [ title |-> game_id, developer |-> "", added |-> "", hide |-> "yes",
           enable_score |-> "true", new_flag |-> "",
           announcement_message |-> inherited_announcement ]

\* The prediction check inside the parsed-metadata branch.
FirstPredictionCheck(drv, v, game_id, dir) ==
    IF MetadataParses(dir) /\ PredictionKey(drv, game_id, v.title) # ""
    THEN ApplyPrediction(v, PredictionKey(drv, game_id, v.title))
    ELSE v

\* The prediction check after the metadata branch ("for games without
\* metadata").
SecondPredictionCheck(drv, v, game_id, dir) ==
    IF MetadataFileExists(dir) /\ v.title # "" /\ v.title # game_id
    THEN v
    ELSE IF PredictionKey(drv, game_id, v.title) # ""
         THEN ApplyPrediction(v, PredictionKey(drv, game_id, v.title))
         ELSE v

\* jq -n ... '{id: $id, ...}' for a ROM-backed game.
GameJson(l, v, dir, new_flag) ==
    [ id |-> GameId(l),
      title |-> OrDefault(v.title, GameId(l)),
      developer |-> v.developer,
      added |-> v.added,
      hide |-> v.hide,
      coverArt |-> CoverArt(GameId(l), dir),
      pageUrl |-> PageUrl(GameId(l)),
      core |-> OrDefault(get_core_from_dir(RomSubdir(l)), "null"),
      romPath |-> RomPath(LOCAL_TESTING, l),
      saveState |-> SaveState(GameId(l), dir),
      enable_score |-> (v.enable_score = "true"),
      new_flag |-> new_flag,
      announcement_message |-> v.announcement_message ]

\* --argjson takes JSON text: jq fails on anything else.
IsJsonBoolean(text) == text \in {"true", "false"}

\* The object "{}".
EmptyObject == [ empty |-> TRUE ]

\* game_json=$(jq -n ... || echo "{}")
JqOrEmpty(json, enable_score) ==
    IF IsJsonBoolean(enable_score) THEN json ELSE EmptyObject

\* The guard writing every object, the empty one too.
OnlyNonEmpty_Everything(game_json) == << game_json >>

\* "Only add non-empty JSON objects": [ "$game_json" != "{}" ]
OnlyNonEmpty(game_json) ==
    IF game_json = EmptyObject THEN << >> ELSE << game_json >>

\* One pass of the ROM loop over line l. skip: the line is passed over;
\* abort: the shell exits in the middle of the pass; entries: the JSON
\* object to write, if any; announcement_message: the variable afterwards.
ProcessRom(drv, l, inherited_announcement) ==
    LET id == GameId(l)
        dir == games_dir[id]
        skip == SkipBios(l) \/ (drv = "parallel" /\ SkipHelperFile(l))
        v0 == RomMetadata(id, dir, inherited_announcement)
        v1 == FirstPredictionCheck(drv, v0, id, dir)
        v2 == SecondPredictionCheck(drv, v1, id, dir)
        new_flag == FinalNewFlag(v2.new_flag, IsNewByDate(v2.added, now_epoch))
        abort == ~skip /\ DateAborts(v2.added, drv = "sequential")
    IN  [ skip |-> skip,
          abort |-> abort,
          entries |-> IF skip \/ abort THEN << >>
                      ELSE OnlyNonEmpty(JqOrEmpty(GameJson(l, v2, dir, new_flag),
                                                  v2.enable_score)),
          announcement_message |->
              IF skip THEN inherited_announcement ELSE v2.announcement_message ]

\* page_url of an external game
ExternalPageUrl(external_url, launch_button_url) ==
    IF launch_button_url # "" /\ launch_button_url # external_url
    THEN << launch_button_url >>
    ELSE << external_url >>

\* The shell variables of one pass of the external scan.
ExternalMetadata(dir) ==
    [ game_type |-> JqAlt(dir.meta.game_type, ""),
      title |-> JqAlt(dir.meta.title, ""),
      developer |-> JqAlt(dir.meta.developer, ""),
      added |-> JqAlt(dir.meta.added, ""),
      hide |-> JqAlt(dir.meta.hide, ""),
      enable_score |-> JqAlt(dir.meta.enable_score, "false"),
      new_flag |-> JqAlt(dir.meta.new, ""),
      announcement_message |-> JqAlt(dir.meta.announcement_message, ""),
      external_url |-> JqAlt(dir.meta.external_url, ""),
      launch_button_text |-> JqAlt(dir.meta.launch_button_text, "Play Game"),
      launch_button_url |-> JqAlt(dir.meta.launch_button_url, "") ]

\* The scan without its test of the hide field.
ExternalSkipped_WithoutHideTest(dir) ==
    \/ ~dir.exists
    \/ ~MetadataFileExists(dir)
    \/ ~MetadataParses(dir)
    \/ ExternalMetadata(dir).game_type # "external"
    \/ ExternalMetadata(dir).title = ""
    \/ ExternalMetadata(dir).external_url = ""

\* The conditions under which the scan passes over an external-* directory.
ExternalSkipped(dir) ==
    \/ ~dir.exists
    \/ ~MetadataFileExists(dir)
    \/ ~MetadataParses(dir)
    \/ ExternalMetadata(dir).game_type # "external"
    \/ ExternalMetadata(dir).hide = "yes"
    \/ ExternalMetadata(dir).title = ""
    \/ ExternalMetadata(dir).external_url = ""

\* jq -n ... '{id: $id, ...}' for an external game.
ExternalJson(id, v, dir, new_flag) ==
    [ id |-> id,
      title |-> OrDefault(v.title, id),
      developer |-> v.developer,
      added |-> v.added,
      hide |-> v.hide,
      coverArt |-> CoverArt(id, dir),
      pageUrl |-> ExternalPageUrl(v.external_url, v.launch_button_url),
      core |-> "external",
      romPath |-> << >>,
      saveState |-> << >>,
      enable_score |-> (v.enable_score = "true"),
      new_flag |-> new_flag,
      announcement_message |-> v.announcement_message,
      external_url |-> v.external_url,
      launch_button_text |-> v.launch_button_text,
      launch_button_url |-> v.launch_button_url,
      game_type |-> v.game_type ]

\* One pass of the external scan over directory id. The scan runs in the main
\* shell, where errexit is in force.
ProcessExternal(id) ==
    LET dir == games_dir[id]
        v == ExternalMetadata(dir)
        skip == ExternalSkipped(dir)
        new_flag == FinalNewFlag(v.new_flag, IsNewByDate(v.added, now_epoch))
        abort == ~skip /\ DateAborts(v.added, TRUE)
    IN  [ skip |-> skip,
          abort |-> abort,
          entries |-> IF skip \/ abort THEN << >>
                      ELSE OnlyNonEmpty(JqOrEmpty(
                               ExternalJson(id, v, dir, new_flag),
                               v.enable_score)) ]

\* -------------------------------------------------- processed_games.json
OpenBracket == [ t |-> "[" ]
CloseBracket == [ t |-> "]" ]
Comma == [ t |-> "," ]
Object(e) == [ t |-> "obj", v |-> e ]

\* Append one object, with a comma before it unless it is the first.
AppendGame(file, first, e) ==
    IF first THEN Append(file, Object(e))
    ELSE Append(Append(file, Comma), Object(e))

\* jq -e . on the file: it parses as one JSON array.
IsJsonArray(file) ==
    /\ Len(file) >= 2
    /\ file[1].t = "["
    /\ file[Len(file)].t = "]"
    /\ \/ Len(file) = 2
       \/ /\ Len(file) % 2 = 1
          /\ \A i \in 2..(Len(file) - 1) :
                file[i].t = (IF i % 2 = 0 THEN "obj" ELSE ",")

\* The elements of the array the file holds.
ArrayItems(file) == [ j \in 1..((Len(file) - 1) \div 2) |-> file[2 * j].v ]

\* The merge loop `for game_file in $GAME_FILES`, from the i-th id of the
\* sorted listing on. $GAME_FILES is expanded unquoted: a file name with a
\* blank falls apart into words that name no file, so `[ -s ]` fails on each.
RECURSIVE MergeFrom(_, _, _)
MergeFrom(i, file, first) ==
    IF i > Len(SortedIds) THEN [ file |-> file, first_game |-> first ]
    ELSE LET id == SortedIds[i]
         IN  IF game_files[id] = << >> \/ HasWhitespace(id)
             THEN MergeFrom(i + 1, file, first)
             ELSE MergeFrom(i + 1, AppendGame(file, first, game_files[id][1]),
                            FALSE)

\* for game_dir in "$GAMES_DIR"/external-*; [ ! -d ] && continue
ExternalDirs == SelectSeq(SortedExternalIds, LAMBDA id : games_dir[id].exists)

\* public/gamelist.json: what was there before the build, then the document
\* jq writes.
PreviousCatalog == [ state |-> "previous", games |-> << >> ]

\* public/api/current-game as it was before the build.
PreviousCurrentGame == "<previous>"
Catalog(games) == [ state |-> "written", games |-> games ]

NoGameFiles == [ id \in RomIds |-> << >> ]

\* ------------------------------------------------------------ initial states
\* The state of a build before its first driver starts.
InitRun ==
    /\ driver = "parallel"
    /\ pc = "start"
    /\ ROM_FILES = << >>
    /\ batch_pos = [ w \in Workers |-> 0 ]
    /\ seq_count = 0
    /\ game_files = NoGameFiles
    /\ processed_games = << >>
    /\ first_game = TRUE
    /\ announcement_message = ""
    /\ ext_todo = << >>
    /\ OUTPUT_FILE = PreviousCatalog
    /\ current_game = PreviousCurrentGame
    /\ exit_code = -1
    /\ parallel_run = [ exit |-> -1, catalog |-> PreviousCatalog ]

Manifests == { m \in SUBSET AllLines : Cardinality(m) <= MaxManifest }

\* Metadata documents of the game Mario in the whole-build specification.
BuildDocs ==
    { AbsentDoc,
      Doc("parsed", "Super Mario", "yes", "2025-01-26", Unset, "false",
          "Welcome"),
      Doc("parsed", "Mario", Unset, "not-a-date", Unset, Unset, Unset) }

\* External directories of the whole-build specification.
BuildExternalDirs ==
    { NoDir,
      GameDir(ExternalDoc("external", "Demo", "no", "https://x", Unset,
                          "2025-01-31", Unset), TRUE, FALSE),
      GameDir(ExternalDoc("external", "Demo", "yes", "https://x", Unset,
                          Unset, Unset), FALSE, FALSE) }

\* The whole build: any manifest of up to MaxManifest lines from any of the
\* three sources, a few metadata documents, up to MaxExternal external
\* directories.
Init ==
    /\ InitRun
    /\ OthersIdle
    /\ LOCAL_TESTING = FALSE
    /\ manifest_source \in {"url", "path", "scan"}
    /\ manifest \in Manifests
    /\ now_epoch = 1738540800
    /\ \E p \in { NotInPredictions, Prediction(0, "SHOW_GAME", "2025-01-31") } :
          predictions = [ k \in PredictionKeys |->
                            IF k = "Mario" THEN p ELSE NotInPredictions ]
    /\ \E d \in BuildDocs, x \in [ ExternalIds -> BuildExternalDirs ] :
          /\ \A i \in 1..Len(SortedExternalIds) :
                i > MaxExternal => ~x[SortedExternalIds[i]].exists
          /\ games_dir = [ g \in GameDirs |->
                             IF g = "Mario"
                             THEN GameDir(d, d.state = "parsed", d.state = "parsed")
                             ELSE IF g \in ExternalIds THEN x[g] ELSE NoDir ]

\* Metadata documents of a ROM-backed game in the single-entry specification.
EntryDocs ==
    { AbsentDoc, InvalidDoc } \cup
    { Doc("parsed", title, hide, added, new, Unset, Unset) :
        title \in {Unset, "Mario", "Super Mario"},
        hide \in {Unset, "yes", "no"},
        added \in {Unset, DATE_PLACEHOLDER, "not-a-date"} \cup Dates,
        new \in {Unset, "true"} } \cup
    { Doc("parsed", Unset, hide, Unset, Unset, enable_score, Unset) :
        hide \in {Unset, "yes"},
        enable_score \in {"true", "false", "maybe"} }

\* Metadata documents of an external game in the single-entry specification.
EntryExternalDocs ==
    { AbsentDoc, InvalidDoc } \cup
    { ExternalDoc(game_type, title, hide, external_url, launch_button_url,
                  added, new) :
        game_type \in {Unset, "external", "rom"},
        title \in {Unset, "Demo"},
        hide \in {Unset, "yes", "no"},
        external_url \in {Unset, "https://x"},
        launch_button_url \in {Unset, "https://x", "https://y"},
        added \in {Unset, "not-a-date", "2025-01-27", "2025-01-31"},
        new \in {Unset, "true"} }

\* What the prediction helper may answer for the game id.
EntryPredictions ==
    { NotInPredictions,
      Prediction(0, "SHOW_GAME", ""),
      Prediction(0, "SHOW_GAME", "2025-01-27"),
      Prediction(0, "SHOW_GAME", "2025-01-31"),
      Prediction(1, "", "") }

\* One ROM-backed game with any metadata document and any prediction.
InitRomEntry ==
    /\ LOCAL_TESTING \in BOOLEAN
    /\ manifest = { Line(<<"NES">>, "Mario", "nes") }
    /\ \E d \in EntryDocs, c \in BOOLEAN :
          games_dir = [ g \in GameDirs |->
                          IF g = "Mario" THEN GameDir(d, c, c) ELSE NoDir ]
    /\ \E p \in EntryPredictions,
          q \in { NotInPredictions, Prediction(0, "SHOW_GAME", "2025-01-31") } :
          predictions = [ k \in PredictionKeys |->
                            IF k = "Mario" THEN p
                            ELSE IF k = "Super Mario" THEN q
                            ELSE NotInPredictions ]

\* One external directory with any metadata document.
InitExternalEntry ==
    /\ LOCAL_TESTING = FALSE
    /\ manifest = { }
    /\ \E d \in EntryExternalDocs, c \in BOOLEAN :
          games_dir = [ g \in GameDirs |->
                          IF g = "external-demo" THEN GameDir(d, c, FALSE)
                          ELSE NoDir ]
    /\ predictions = [ k \in PredictionKeys |-> NotInPredictions ]

\* A single entry, ROM-backed or external, with every combination of its own
\* inputs.
InitEntry ==
    /\ InitRun
    /\ OthersIdle
    /\ manifest_source = "path"
    /\ now_epoch \in Nows
    /\ InitRomEntry \/ InitExternalEntry

\* ----------------------------------------------------------------- actions
\* exit 1
Fail ==
    /\ pc' = "failed"
    /\ exit_code' = 1

\* command -v yq, jq, find, python3
CheckTools ==
    /\ pc = "start"
    /\ \E tools_present \in BOOLEAN :
          IF tools_present
          THEN /\ pc' = "collect"
               /\ UNCHANGED exit_code
          ELSE Fail
    /\ UNCHANGED << others, env, driver, ROM_FILES, batch_pos, seq_count, game_files,
                    processed_games, first_game, announcement_message,
                    ext_todo, OUTPUT_FILE, current_game, parallel_run >>

\* Collect ROM_FILES; the parallel driver then distributes them over the
\* batch files and starts the workers, the sequential driver opens the array.
Collect ==
    /\ pc = "collect"
    /\ \E curl_ok \in BOOLEAN :
          IF manifest_source = "url" /\ ~curl_ok
          THEN /\ Fail
               /\ UNCHANGED << ROM_FILES, processed_games, first_game >>
          ELSE /\ ROM_FILES' = IF driver = "parallel"
                               THEN CollectParallel(manifest_source, manifest)
                               ELSE CollectSequential(manifest_source, manifest)
               /\ processed_games' = << OpenBracket >>
               /\ first_game' = TRUE
               /\ pc' = IF driver = "parallel" THEN "batches" ELSE "roms"
               /\ UNCHANGED exit_code
    /\ UNCHANGED << others, env, driver, batch_pos, seq_count, game_files,
                    announcement_message, ext_todo, OUTPUT_FILE, current_game,
                    parallel_run >>

\* A batch worker handles the next line of its batch file in a subshell and
\* writes game_<id>.json.
WorkerStep(w) ==
    /\ driver = "parallel"
    /\ pc = "batches"
    /\ batch_pos[w] < Len(BatchFile(ROM_FILES, w))
    /\ LET l == BatchFile(ROM_FILES, w)[batch_pos[w] + 1]
           r == ProcessRom("parallel", l, "")
       IN  game_files' = IF r.entries = << >> THEN game_files
                         ELSE [ game_files EXCEPT ![GameId(l)] = r.entries ]
    /\ batch_pos' = [ batch_pos EXCEPT ![w] = @ + 1 ]
    /\ UNCHANGED << others, env, driver, pc, ROM_FILES, seq_count, processed_games,
                    first_game, announcement_message, ext_todo, OUTPUT_FILE,
                    current_game, exit_code, parallel_run >>

\* The merge starting without the wait for the batch workers.
Merge_WithoutWait ==
    /\ driver = "parallel"
    /\ pc = "batches"
    /\ LET m == MergeFrom(1, << OpenBracket >>, TRUE)
       IN  /\ processed_games' = m.file
           /\ first_game' = m.first_game
    /\ ext_todo' = ExternalDirs
    /\ pc' = "external"
    /\ UNCHANGED << others, env, driver, ROM_FILES, batch_pos, seq_count, game_files,
                    announcement_message, OUTPUT_FILE, current_game, exit_code,
                    parallel_run >>

\* wait for every batch, then combine the game files into the array.
Merge ==
    /\ driver = "parallel"
    /\ pc = "batches"
    /\ \A w \in Workers : batch_pos[w] = Len(BatchFile(ROM_FILES, w))
    /\ LET m == MergeFrom(1, << OpenBracket >>, TRUE)
       IN  /\ processed_games' = m.file
           /\ first_game' = m.first_game
    /\ ext_todo' = ExternalDirs
    /\ pc' = "external"
    /\ UNCHANGED << others, env, driver, ROM_FILES, batch_pos, seq_count, game_files,
                    announcement_message, OUTPUT_FILE, current_game, exit_code,
                    parallel_run >>

\* One pass of the sequential ROM loop.
SequentialStep ==
    /\ driver = "sequential"
    /\ pc = "roms"
    /\ seq_count < Len(ROM_FILES)
    /\ LET r == ProcessRom("sequential", ROM_FILES[seq_count + 1],
                           announcement_message)
       IN  IF r.abort
           THEN /\ Fail
                /\ UNCHANGED << processed_games, first_game,
                                announcement_message >>
           ELSE /\ announcement_message' = r.announcement_message
                /\ IF r.entries = << >>
                   THEN UNCHANGED << processed_games, first_game >>
                   ELSE /\ processed_games' =
                              AppendGame(processed_games, first_game,
                                         r.entries[1])
                        /\ first_game' = FALSE
                /\ UNCHANGED << pc, exit_code >>
    /\ seq_count' = seq_count + 1
    /\ UNCHANGED << others, env, driver, ROM_FILES, batch_pos, game_files, ext_todo,
                    OUTPUT_FILE, current_game, parallel_run >>

\* The sequential ROM loop has read every line.
SequentialLoopEnd ==
    /\ driver = "sequential"
    /\ pc = "roms"
    /\ seq_count = Len(ROM_FILES)
    /\ ext_todo' = ExternalDirs
    /\ pc' = "external"
    /\ UNCHANGED << others, env, driver, ROM_FILES, batch_pos, seq_count, game_files,
                    processed_games, first_game, announcement_message,
                    OUTPUT_FILE, current_game, exit_code, parallel_run >>

\* One pass of an external-games scan (the sequential driver scans a second
\* time after it has written the catalog).
ExternalStep ==
    /\ pc \in {"external", "external_again"}
    /\ ext_todo # << >>
    /\ LET r == ProcessExternal(Head(ext_todo))
       IN  IF r.abort
           THEN /\ Fail
                /\ UNCHANGED << processed_games, first_game >>
           ELSE /\ IF r.entries = << >>
                   THEN UNCHANGED << processed_games, first_game >>
                   ELSE /\ processed_games' =
                              AppendGame(processed_games, first_game,
                                         r.entries[1])
                        /\ first_game' = FALSE
                /\ UNCHANGED << pc, exit_code >>
    /\ ext_todo' = Tail(ext_todo)
    /\ UNCHANGED << others, env, driver, ROM_FILES, batch_pos, seq_count, game_files,
                    announcement_message, OUTPUT_FILE, current_game,
                    parallel_run >>

\* Close the array, validate it with jq -e, and test the file with [ -s ].
CloseArray ==
    /\ pc = "external"
    /\ ext_todo = << >>
    /\ processed_games' = Append(processed_games, CloseBracket)
    /\ IF IsJsonArray(processed_games') /\ Len(processed_games') > 0
       THEN /\ pc' = "write"
            /\ UNCHANGED exit_code
       ELSE Fail
    /\ UNCHANGED << others, env, driver, ROM_FILES, batch_pos, seq_count, game_files,
                    first_game, announcement_message, ext_todo, OUTPUT_FILE,
                    current_game, parallel_run >>

\* jq -n --slurpfile games ... '{games: $games[0]}' > "$OUTPUT_FILE", then
\* jq -e . "$OUTPUT_FILE".
WriteOutput ==
    /\ pc = "write"
    /\ OUTPUT_FILE' = Catalog(ArrayItems(processed_games))
    /\ pc' = "current_game"
    /\ UNCHANGED << others, env, driver, ROM_FILES, batch_pos, seq_count, game_files,
                    processed_games, first_game, announcement_message,
                    ext_todo, current_game, exit_code, parallel_run >>

\* What scripts/get_current_week_game_id.py may answer: exit status and
\* output.
CurrentWeekAnswers ==
    { [ exit |-> 0, out |-> "Mario" ], [ exit |-> 0, out |-> "" ],
      [ exit |-> 1, out |-> "" ] }

\* CURRENT_GAME_ID=$(python3 scripts/get_current_week_game_id.py) is a plain
\* assignment under errexit; then public/api/current-game is written.
CurrentGame ==
    /\ pc = "current_game"
    /\ \E a \in CurrentWeekAnswers :
          IF a.exit # 0
          THEN /\ Fail
               /\ UNCHANGED << current_game, ext_todo >>
          ELSE /\ current_game' = IF a.out # "" THEN a.out ELSE "no-game"
               /\ pc' = IF driver = "parallel" THEN "cleanup"
                        ELSE "external_again"
               /\ ext_todo' = IF driver = "parallel" THEN ext_todo
                              ELSE ExternalDirs
               /\ UNCHANGED exit_code
    /\ UNCHANGED << others, env, driver, ROM_FILES, batch_pos, seq_count, game_files,
                    processed_games, first_game, announcement_message,
                    OUTPUT_FILE, parallel_run >>

\* rm -rf "$TEMP_DIR" and the end of the script.
Cleanup ==
    /\ \/ pc = "cleanup"
       \/ pc = "external_again" /\ ext_todo = << >>
    /\ game_files' = NoGameFiles
    /\ processed_games' = << >>
    /\ pc' = "done"
    /\ exit_code' = 0
    /\ UNCHANGED << others, env, driver, ROM_FILES, batch_pos, seq_count, first_game,
                    announcement_message, ext_todo, OUTPUT_FILE, current_game,
                    parallel_run >>

\* The parallel run is over; the sequential driver is started on the same
\* inputs, the output path and the current-game file as they were before.
StartSequential ==
    /\ driver = "parallel"
    /\ pc \in {"done", "failed"}
    /\ parallel_run' = [ exit |-> exit_code, catalog |-> OUTPUT_FILE ]
    /\ driver' = "sequential"
    /\ pc' = "start"
    /\ exit_code' = -1
    /\ ROM_FILES' = << >>
    /\ seq_count' = 0
    /\ game_files' = NoGameFiles
    /\ processed_games' = << >>
    /\ first_game' = TRUE
    /\ announcement_message' = ""
    /\ ext_todo' = << >>
    /\ OUTPUT_FILE' = PreviousCatalog
    /\ current_game' = PreviousCurrentGame
    /\ UNCHANGED << others, env, batch_pos >>

Next ==
    \/ CheckTools
    \/ Collect
    \/ \E w \in Workers : WorkerStep(w)
    \/ Merge
    \/ SequentialStep
    \/ SequentialLoopEnd
    \/ ExternalStep
    \/ CloseArray
    \/ WriteOutput
    \/ CurrentGame
    \/ Cleanup
    \/ StartSequential

Spec == Init /\ [][Next]_vars

SpecEntry == InitEntry /\ [][Next]_vars

\* No build is running and nothing is there to build.
BuildIdle ==
    /\ InitRun
    /\ LOCAL_TESTING = FALSE
    /\ manifest_source = "path"
    /\ manifest = { }
    /\ now_epoch = 1738540800
    /\ predictions = [ k \in PredictionKeys |-> NotInPredictions ]
    /\ games_dir = [ g \in GameDirs |-> NoDir ]

\* The progress trackers and the two processes they watch.
InitTracker == BuildIdle /\ InitTracking /\ InitNavigation /\ InitTyping

SpecTracker == InitTracker /\ [][NextTracker]_vars

\* The keyboard navigation of the game grid.
InitNav == BuildIdle /\ TrackingIdle /\ InitNavigation /\ InitTyping

SpecNavigation == InitNav /\ [][NextNavigation]_vars

\* The typing test.
InitTypingTest == BuildIdle /\ TrackingIdle /\ InitNavigation /\ InitTyping

SpecTyping == InitTypingTest /\ [][NextTyping]_vars

\* ------------------------------------------------------------- properties
\* The games array of the catalog at the output path.
Games == OUTPUT_FILE.games

SetOf(q) == { q[i] : i \in 1..Len(q) }

\* The driver that is running has finished and published its catalog.
Published == pc = "done"

\* Entries of the catalog that come from a ROM, and those that come from
\* manifest line l.
IsRomBacked(e) == e.romPath # << >>

EntriesOfLine(l) ==
    { i \in 1..Len(Games) : Games[i].romPath = RomPath(LOCAL_TESTING, l) }

EntriesOfId(id) == { i \in 1..Len(Games) : Games[i].id = id }

\* The prediction data flags game id as predicted-show, and the date it
\* carries.
PredictedShow(id) ==
    predictions[id].exit = 0 /\ predictions[id].out = "SHOW_GAME"

\* The running driver left its loop through errexit, in the middle of a pass.
AbortedInLoop ==
    /\ pc = "failed"
    /\ processed_games # << >>
    /\ processed_games[Len(processed_games)].t # "]"

\* C1: when both drivers have run to the end on the same inputs, the catalog
\* of the sequential run holds the same entries, with the same field values,
\* as the catalog of the parallel run (compared as sets).
C1_DriversAgree ==
    (driver = "sequential" /\ Published /\ parallel_run.exit = 0)
        => SetOf(parallel_run.catalog.games) = SetOf(Games)

\* The lines the running driver collected and does not pass over.
EligibleLines ==
    { l \in SetOf(ROM_FILES) : ~ProcessRom(driver, l, "").skip }

\* C2: in a published catalog every eligible entry (each collected manifest
\* line that is not filtered, each eligible external directory) appears
\* exactly once, and nothing else appears.
C2_EveryEligibleEntryOnce ==
    Published =>
        /\ \A l \in EligibleLines : Cardinality(EntriesOfLine(l)) = 1
        /\ \A id \in ExternalIds :
              ~ExternalSkipped(games_dir[id])
                  => Cardinality(EntriesOfId(id)) = 1
        /\ Len(Games) = Cardinality(EligibleLines)
                + Cardinality({ id \in ExternalIds :
                                  ~ExternalSkipped(games_dir[id]) })

\* A segment of the line, directory or file name, is bios.
HasBiosSegment(l) ==
    \/ \E i \in 1..Len(l.dirs) : l.dirs[i] = "bios"
    \/ l.base = "bios" /\ l.ext = ""

\* A directory segment of the line is bios.
HasBiosDirectory(l) == \E i \in 1..Len(l.dirs) : l.dirs[i] = "bios"

\* C3 as stated: a published catalog holds no entry derived from a manifest
\* line with a segment equal to bios at any position.
C3_NoEntryForAnyBiosSegment ==
    Published =>
        \A l \in manifest : HasBiosSegment(l) => EntriesOfLine(l) = { }

\* C3 as amended: a published catalog holds no entry derived from a manifest
\* line with a directory segment equal to bios (any segment but the file
\* name), whichever of the three sources the manifest came from.
C3_NoEntryUnderBiosDirectory ==
    Published =>
        \A l \in manifest : HasBiosDirectory(l) => EntriesOfLine(l) = { }

\* A line under a bios directory was in the manifest and the catalog was
\* published with another game in it.
C3_Witness ==
    /\ Published
    /\ \E l \in manifest : HasBiosDirectory(l) /\ RomSubdir(l) = "bios"
    /\ Len(Games) >= 1

\* The file name has a denylisted extension or a reserved basename.
IsHelperFile(l) ==
    \/ Lower(l.ext) \in DeniedExtensions
    \/ Lower(l.base) \in {"readme", "upload-files"}

\* C4: with a local manifest or a filesystem scan, a published catalog of
\* either driver holds no entry for a line whose file name has a denylisted
\* extension or a reserved basename.
C4_NoEntryForHelperFile ==
    (Published /\ manifest_source \in {"path", "scan"}) =>
        \A l \in manifest : IsHelperFile(l) => EntriesOfLine(l) = { }

\* The metadata document of game id, when it parses.
Parsed(id) == MetadataParses(games_dir[id])

Meta(id) == games_dir[id].meta

\* A field of a parsed document, "" when the document does not have it.
FieldOrEmpty(v) == IF v = Unset THEN "" ELSE v

\* The added date is a calendar date less than 7 days before now.
YoungerThanAWeek(added) ==
    /\ added \in Dates
    /\ now_epoch - EpochOf(added) < 7 * 24 * 60 * 60

\* C5: every entry of a published catalog has new_flag "true" exactly when
\* its metadata sets new to "true" or its effective added date is a date less
\* than 7 days old, and "" otherwise; and an added value that is no date makes
\* the entry not new without an error, so no driver stops in the middle of
\* its loop.
C5_RecencyLaw ==
    /\ ~AbortedInLoop
    /\ Published =>
          \A i \in 1..Len(Games) :
              LET e == Games[i]
              IN  e.new_flag =
                    IF \/ Parsed(e.id) /\ Meta(e.id).new = "true"
                       \/ YoungerThanAWeek(e.added)
                    THEN "true" ELSE ""

\* C6: in a published catalog of either driver, a ROM-backed entry whose game
\* id the prediction data flags predicted-show has hide "no", whatever its
\* metadata says.
C6_PredictedShowIsNotHidden ==
    Published =>
        \A i \in 1..Len(Games) :
            (IsRomBacked(Games[i]) /\ PredictedShow(Games[i].id))
                => Games[i].hide = "no"

\* The hide value of game id before the overlay: the metadata's, "" when a
\* parsed document has none, "yes" without a parsed document.
HideBeforeOverlay(id) ==
    IF Parsed(id) THEN FieldOrEmpty(Meta(id).hide) ELSE "yes"

\* C7: the overlay acts the same in every metadata situation (absent,
\* unparsable, parsed with no title, with the id as title, with another
\* title): a predicted-show game ends with hide "no", a game that is not
\* predicted keeps the hide value it had before the overlay.
C7_OverlayInEverySituation ==
    Published =>
        \A i \in 1..Len(Games) :
            IsRomBacked(Games[i]) =>
                Games[i].hide = IF PredictedShow(Games[i].id) THEN "no"
                                ELSE HideBeforeOverlay(Games[i].id)

\* The added value of game id in its metadata, "" if none.
AddedInMetadata(id) ==
    IF Parsed(id) THEN FieldOrEmpty(Meta(id).added) ELSE ""

\* C8: a ROM-backed entry's added is the override date when the prediction
\* data answers predicted-show with a date for its game id, and the
\* metadata's value (empty if none) otherwise.
C8_AddedIsOverrideDate ==
    Published =>
        \A i \in 1..Len(Games) :
            IsRomBacked(Games[i]) =>
                Games[i].added =
                    IF /\ PredictedShow(Games[i].id)
                       /\ predictions[Games[i].id].date # ""
                    THEN predictions[Games[i].id].date
                    ELSE AddedInMetadata(Games[i].id)

\* The eligibility of an external directory, in the words of the claim.
ExternalEligible(id) ==
    /\ Parsed(id)
    /\ Meta(id).game_type = "external"
    /\ Meta(id).hide # "yes"
    /\ FieldOrEmpty(Meta(id).title) # ""
    /\ FieldOrEmpty(Meta(id).external_url) # ""

C10_HiddenUnlessMetadataOrPrediction ==
    Published =>
        \A i \in 1..Len(Games) :
            ( /\ IsRomBacked(Games[i])
              /\ ~(Parsed(Games[i].id) /\ Meta(Games[i].id).hide # Unset)
              /\ ~PredictedShow(Games[i].id) )
                => Games[i].hide = "yes"

\* C10 as amended: a ROM-backed entry without a parsed metadata document has
\* hide "yes" unless its game id is predicted-show; an entry whose metadata
\* parses takes the document's hide value, so it has hide "yes" only if the
\* document says so, and a document that omits hide gives "" (or "no" through
\* the overlay), never "yes".
C10_HiddenByDefaultOnlyWithoutMetadata ==
    Published =>
        \A i \in 1..Len(Games) :
            IsRomBacked(Games[i]) =>
                /\ (~Parsed(Games[i].id) /\ ~PredictedShow(Games[i].id))
                      => Games[i].hide = "yes"
                /\ (Parsed(Games[i].id) /\ Meta(Games[i].id).hide = Unset)
                      => Games[i].hide \in {"", "no"}
                /\ (Parsed(Games[i].id) /\ Games[i].hide = "yes")
                      => Meta(Games[i].id).hide = "yes"

\* A game whose metadata parses and omits hide is published with hide "".
C10_Witness ==
    /\ Published
    /\ \E i \in 1..Len(Games) :
          /\ IsRomBacked(Games[i])
          /\ Parsed(Games[i].id)
          /\ Meta(Games[i].id).hide = Unset
          /\ Games[i].hide = ""

\* The manifest lines a ROM-backed entry of the catalog can come from.
LinesOf(e) == { l \in manifest : e.romPath = RomPath(LOCAL_TESTING, l) }

\* C11: the core of a ROM-backed entry of a published catalog is the table
\* value of its system folder, the empty string for a folder that is not in
\* the table, and a line of such a folder still has its entry.
C11_CoreIsTableValue ==
    Published =>
        /\ \A i \in 1..Len(Games) :
              IsRomBacked(Games[i]) =>
                  \A l \in LinesOf(Games[i]) :
                      Games[i].core = get_core_from_dir(RomSubdir(l))
        /\ \A l \in EligibleLines :
              get_core_from_dir(RomSubdir(l)) = "" => EntriesOfLine(l) # { }

\* C12: enable_score of an entry of a published catalog is the metadata's
\* value when the metadata gives true or false, and otherwise true for a
\* ROM-backed entry and false for an external one.
C12_EnableScoreFollowsMetadata ==
    Published =>
        \A i \in 1..Len(Games) :
            Games[i].enable_score =
                IF Parsed(Games[i].id)
                   /\ Meta(Games[i].id).enable_score \in {"true", "false"}
                THEN Meta(Games[i].id).enable_score = "true"
                ELSE IsRomBacked(Games[i])

\* C13: every ROM-backed entry of a published catalog is the record that
\* processing its line alone yields, whatever lines were processed before it;
\* in particular an entry without a parsed metadata document has the empty
\* announcement_message.
C13_EntryDependsOnOwnInputsOnly ==
    Published =>
        \A i \in 1..Len(Games) :
            IsRomBacked(Games[i]) =>
                /\ \E l \in manifest :
                      ProcessRom(driver, l, "").entries = << Games[i] >>
                /\ ~Parsed(Games[i].id) => Games[i].announcement_message = ""

\* The directory of a game without its metadata document.
WithoutMetadata(dir) == [ dir EXCEPT !.meta = AbsentDoc ]

\* The record a driver builds from line l when the game's directory is dir.
EntryBuiltFrom(drv, l, dir) ==
    LET v0 == RomMetadata(GameId(l), dir, "")
        v1 == FirstPredictionCheck(drv, v0, GameId(l), dir)
        v2 == SecondPredictionCheck(drv, v1, GameId(l), dir)
    IN  GameJson(l, v2, dir,
                 FinalNewFlag(v2.new_flag, IsNewByDate(v2.added, now_epoch)))

\* The metadata document of game id exists and cannot be parsed.
Unparsable(id) == games_dir[id].exists /\ games_dir[id].meta.state = "invalid"

\* C14: a ROM-backed game whose metadata document cannot be parsed has, in a
\* published catalog, exactly the entry the same game has without any
\* metadata document, and its document does not stop the driver in the
\* middle of its loop.
C14_UnparsableIsAbsent ==
    /\ (\E l \in manifest : Unparsable(GameId(l))) => ~AbortedInLoop
    /\ Published =>
          \A l \in EligibleLines :
              Unparsable(GameId(l)) =>
                  /\ EntriesOfLine(l) # { }
                  /\ \A i \in EntriesOfLine(l) :
                        Games[i] = EntryBuiltFrom(driver, l,
                                       WithoutMetadata(games_dir[GameId(l)]))

\* A game with an unparsable document and a predicted-show id is published
\* by the sequential driver.
C14_Witness ==
    /\ Published
    /\ driver = "sequential"
    /\ \E l \in manifest :
          /\ Unparsable(GameId(l))
          /\ PredictedShow(GameId(l))
          /\ \E i \in EntriesOfLine(l) : Games[i].hide = "no"

\* The running driver has ended, with whatever exit status.
RunEnded == pc \in {"done", "failed"}

\* C15: a build whose assembled catalog has no entries fails with a non-zero
\* exit and publishes nothing: no run exits zero, and no run writes the output
\* path, with an empty games array.
C15_EmptyCatalogFailsTheBuild ==
    /\ exit_code = 0 => Len(Games) > 0
    /\ OUTPUT_FILE.state = "written" => Len(Games) > 0

\* C16: the driver's exit status becomes non-zero only where a required tool
\* is missing, the remote manifest cannot be fetched, or the final document
\* fails validation; skipped entries, failed prediction lookups and a failing
\* current-week helper leave it zero.
C16_NonZeroExitOnlyForFatalCauses ==
    [][ (exit_code' = 1 /\ exit_code # 1) =>
            \/ pc = "start"
            \/ pc = "collect"
            \/ pc = "external" /\ ext_todo = << >>
            \/ pc = "write" ]_vars

\* C17: when a run has ended with the catalog published, the current-game
\* file has been written too and holds a game id or "no-game".
C17_CurrentGameWrittenWithCatalog ==
    (RunEnded /\ OUTPUT_FILE.state = "written") =>
        /\ current_game # PreviousCurrentGame
        /\ current_game \in RomIds \cup {"no-game"}

\* C18: when a run ends with a non-zero exit, the output path still holds the
\* catalog it held before the run.
C18_FailedBuildKeepsPreviousCatalog ==
    exit_code = 1 => OUTPUT_FILE = PreviousCatalog

\* C19: when a run exits zero, the output path holds a document of the shape
\* {games: [entry, ...]} written by that run, and no element is the empty
\* object: every element is an entry with an id.
C19_ZeroExitMeansWellFormedCatalog ==
    exit_code = 0 =>
        /\ OUTPUT_FILE.state = "written"
        /\ \A i \in 1..Len(Games) :
              /\ Games[i] # EmptyObject
              /\ Games[i].id \in GameDirs

\* A game whose object came out empty was left out, and the run exited zero.
C19_Witness ==
    /\ exit_code = 0
    /\ \E l \in manifest :
          /\ Parsed(GameId(l))
          /\ ~IsJsonBoolean(Meta(GameId(l)).enable_score)
          /\ Meta(GameId(l)).enable_score # Unset
          /\ EntriesOfLine(l) = { }

\* The game files worker w has written so far.
WrittenBy(w) ==
    { GameId(BatchFile(ROM_FILES, w)[k]) :
        k \in { j \in 1..batch_pos[w] :
                  ProcessRom("parallel", BatchFile(ROM_FILES, w)[j], "").entries
                      # << >> } }

\* C20: in the parallel phase no per-entry output file is written by two
\* different workers.
C20_WorkersWriteDisjointFiles ==
    (driver = "parallel" /\ pc = "batches") =>
        \A w1, w2 \in Workers :
            w1 # w2 => WrittenBy(w1) \cap WrittenBy(w2) = { }

\* Every batch worker has read its whole batch file and ended.
AllWorkersEnded ==
    \A w \in Workers : batch_pos[w] = Len(BatchFile(ROM_FILES, w))

\* C21: the parallel driver leaves the batch phase for the merge only when
\* every batch worker has ended, and a game file is written only during the
\* batch phase, never once the merge has begun.
C21_MergeAfterAllWorkers ==
    [][ /\ (driver = "parallel" /\ pc = "batches" /\ pc' # "batches")
            => AllWorkersEnded
        /\ (\E id \in RomIds : game_files'[id] # game_files[id]
                                /\ game_files'[id] # << >>)
            => (driver = "parallel" /\ pc = "batches" /\ pc' = "batches") ]_vars

\* The merge has run after two workers each wrote a game file.
C21_Witness ==
    /\ driver = "parallel"
    /\ pc = "external"
    /\ \A w \in Workers : batch_pos[w] >= 1
    /\ Cardinality({ id \in RomIds : game_files[id] # << >> }) >= 2

\* The identifier the running driver hands to the prediction helper for game
\* id: the game id, or in the sequential driver the title it has after the
\* metadata branch ("" when it asks nothing).
LookupKey(id) ==
    PredictionKey(driver, id, RomMetadata(id, games_dir[id], "").title)

\* The helper call for game id fails.
LookupFails(id) ==
    /\ LookupKey(id) \in DOMAIN predictions
    /\ predictions[LookupKey(id)].exit # 0

\* The object jq builds for game id is not empty.
ObjectBuilt(id) ==
    IsJsonBoolean(RomMetadata(id, games_dir[id], "").enable_score)

ExpectedCover(id) ==
    IF games_dir[id].exists /\ games_dir[id].cover
    THEN << "/games/", id, "/cover.png" >>
    ELSE << "/", "assets/images/placeholder_thumb.png" >>

\* C23: in a published catalog every entry, ROM-backed or external, has the
\* path of its own cover.png when that file exists and the placeholder path
\* otherwise; a game without cover.png is neither skipped nor does it stop
\* the driver.
C23_CoverFallback ==
    /\ Published =>
          /\ \A i \in 1..Len(Games) :
                Games[i].coverArt = ExpectedCover(Games[i].id)
          /\ \A l \in EligibleLines :
                (~games_dir[GameId(l)].cover /\ ObjectBuilt(GameId(l)))
                    => EntriesOfLine(l) # { }
          /\ \A id \in ExternalIds :
                (ExternalEligible(id) /\ ~games_dir[id].cover)
                    => EntriesOfId(id) # { }
    /\ AbortedInLoop =>
          \E id \in GameDirs :
              games_dir[id].exists /\ games_dir[id].meta.added = "not-a-date"

\* An external game without cover.png is published with the placeholder.
C23_Witness ==
    /\ Published
    /\ \E i \in 1..Len(Games) :
          /\ ~IsRomBacked(Games[i])
          /\ ~games_dir[Games[i].id].cover
          /\ Games[i].coverArt = << "/", "assets/images/placeholder_thumb.png" >>

\* The lines of the batch files one after the other, batch 1 first: the
\* order in which the game files are written when each worker runs to its end
\* before the next one starts.
RECURSIVE BatchesInOrder(_)
BatchesInOrder(w) ==
    IF w > NumWorkers THEN << >>
    ELSE BatchFile(ROM_FILES, w) \o BatchesInOrder(w + 1)

\* The content of the game file of id after the lines ls were processed in
\* their order (the last writer's entry stays).
RECURSIVE GameFileAfter(_, _)
GameFileAfter(ls, id) ==
    IF ls = << >> THEN << >>
    ELSE LET l == ls[Len(ls)]
             r == ProcessRom("parallel", l, "")
         IN  IF GameId(l) = id /\ r.entries # << >> THEN r.entries
             ELSE GameFileAfter(SubSeq(ls, 1, Len(ls) - 1), id)

\* C24: the games array a parallel run publishes is the same for every
\* scheduling of its workers: each ROM-backed entry is the one the run
\* publishes when the workers run one after the other.
C24_SameArrayWhateverSchedule ==
    (driver = "parallel" /\ Published) =>
        \A i \in 1..Len(Games) :
            IsRomBacked(Games[i]) =>
                << Games[i] >> = GameFileAfter(BatchesInOrder(1), Games[i].id)

\* C27: the recency test reads the effective added date, the one the
\* prediction overlay leaves: a ROM-backed entry whose game id is predicted
\* show with an override date is new exactly when its metadata sets new to
\* "true" or the override date is less than 7 days old.
C27_RecencyAfterOverlay ==
    Published =>
        \A i \in 1..Len(Games) :
            LET e == Games[i]
            IN  ( /\ IsRomBacked(e)
                  /\ PredictedShow(e.id)
                  /\ predictions[e.id].date # "" ) =>
                    e.new_flag =
                        IF \/ Parsed(e.id) /\ Meta(e.id).new = "true"
                           \/ YoungerThanAWeek(predictions[e.id].date)
                        THEN "true" ELSE ""

\* C25: a tracker started with ROMS_DIR set to a directory that holds N ROM
\* files has N as its total.
C25_TotalFromCallerRomsDir ==
    \A i \in Trackers :
        (caller_ROMS_DIR # "" /\ TOTAL_ROMS[i] # -1)
            => TOTAL_ROMS[i] = rom_dirs[caller_ROMS_DIR]

\* A watched process still has entries to log.
EntriesLeft == GAMELIST_LOG < to_log \/ THUMBNAILS_LOG < to_log

\* C26: a tracker that has reported "Both processes completed" and left its
\* loop did so with both logs holding at least its total of lines, and with
\* no entry left to log for either process.
C26_CompletionOnlyWhenBothDone ==
    \A i \in Trackers :
        tracker_pc[i] = "done" =>
            /\ GAMELIST_LOG >= TOTAL_ROMS[i]
            /\ THUMBNAILS_LOG >= TOTAL_ROMS[i]
            /\ ~EntriesLeft

\* C28: two trackers are never both past the lock check with their lock
\* written, in main or in its monitoring loop.
C28_AtMostOneTrackerRunning ==
    \A i, j \in Trackers :
        ( /\ tracker_pc[i] \in { "main", "loop" }
          /\ tracker_pc[j] \in { "main", "loop" } ) => i = j

\* C29: currentIndex is the featured game (0) or an item of gameItems.
C29_IndexWithinGrid ==
    currentIndex \in 0..gameItems

\* C30: a timer interval is live exactly when the test is active, never more
\* than one is live, and a completed test is inactive with its input
\* disabled (restartTest is what ends the completed state).
C30_TimerFollowsActiveTest ==
    /\ (typingTest.intervals # { }) <=> typingTest.isTestActive
    /\ Cardinality(typingTest.intervals) <= 1
    /\ typingTest.isTestComplete =>
          ~typingTest.isTestActive /\ typingTest.disabled

\* A second test has ended on the clock: started after a restart, completed
\* by the timer with no time left.
C30_Witness ==
    /\ typingTest.isTestComplete
    /\ typingTest.timers = 2
    /\ typingTest.timeRemaining = 0
    /\ typingTest.value # typingTest.currentQuote
    /\ typingTest.intervals = { }

====
